---- MODULE Spec2Model ----
(***************************************************************************)
(* A model of p2p.py: one peer of a WebRTC chat / file-transfer session.   *)
(*                                                                         *)
(* Text is a sequence of lexemes (string literals, numbers, punctuation,   *)
(* bare words, white space); json.loads and json.dumps are modelled as a   *)
(* parser and a printer over lexemes.  Byte strings are sequences of       *)
(* numbers 0..255.  File-system calls (open, write, close, read) are taken *)
(* to succeed.                                                             *)
(***************************************************************************)
EXTENDS Integers, Sequences, FiniteSets, TLC

(***************************************************************************)
(* Lexemes and texts                                                       *)
(***************************************************************************)
P(s) == [t |-> "punct", s |-> s, n |-> 0]
S(s) == [t |-> "str", s |-> s, n |-> 0]
N(n) == [t |-> "num", s |-> "", n |-> n]
W(s) == [t |-> "word", s |-> s, n |-> 0]
WS == [t |-> "ws", s |-> " ", n |-> 0]

(***************************************************************************)
(* Python values as json.loads builds them.  A dict is the sequence of its *)
(* keys with the sequence of its values, in insertion order.               *)
(***************************************************************************)
PyVal(k, n, s, keys, items) ==
    [k |-> k, n |-> n, s |-> s, keys |-> keys, items |-> items]
PyNone == PyVal("None", 0, "", <<>>, <<>>)
PyBool(b) == PyVal("bool", IF b THEN 1 ELSE 0, "", <<>>, <<>>)
PyInt(n) == PyVal("int", n, "", <<>>, <<>>)
PyStr(s) == PyVal("str", 0, s, <<>>, <<>>)
PyList(items) == PyVal("list", 0, "", <<>>, items)
PyDict(keys, items) == PyVal("dict", 0, "", keys, items)
\* The value json_loads gives when json.loads raises JSONDecodeError.
JSONDecodeError == PyVal("JSONDecodeError", 0, "", <<>>, <<>>)

\* d[key] = value on a dict: an existing key keeps its place.
DictSet(d, key, value) ==
    IF \E i \in 1..Len(d.keys) : d.keys[i] = key
    THEN PyDict(d.keys,
                [i \in 1..Len(d.keys) |->
                    IF d.keys[i] = key THEN value ELSE d.items[i]])
    ELSE PyDict(Append(d.keys, key), Append(d.items, value))
DictHas(d, key) == \E i \in 1..Len(d.keys) : d.keys[i] = key
\* d[key], for a key the dict has.
DictItem(d, key) == d.items[CHOOSE i \in 1..Len(d.keys) : d.keys[i] = key]
\* d.get(key)
DictGet(d, key) == IF DictHas(d, key) THEN DictItem(d, key) ELSE PyNone

(***************************************************************************)
(* json.loads: a recursive-descent parser.  Each Parse operator returns    *)
(* [ok, val, next]: whether a value was read, the value, and the index of  *)
(* the first lexeme after it.                                              *)
(***************************************************************************)
ParseFail == [ok |-> FALSE, val |-> JSONDecodeError, next |-> 0]
ParseOk(v, next) == [ok |-> TRUE, val |-> v, next |-> next]

RECURSIVE SkipWs(_, _)
SkipWs(text, i) ==
    IF i <= Len(text) /\ text[i].t = "ws" THEN SkipWs(text, i + 1) ELSE i

IsPunct(text, i, s) == i <= Len(text) /\ text[i].t = "punct" /\ text[i].s = s

RECURSIVE ParseValue(_, _), ParseElems(_, _, _), ParseMembers(_, _, _)
ParseValue(text, i) ==
    LET j == SkipWs(text, i) IN
    IF j > Len(text) THEN ParseFail
    ELSE LET tk == text[j] IN
         CASE tk.t = "num" -> ParseOk(PyInt(tk.n), j + 1)
           [] tk.t = "str" -> ParseOk(PyStr(tk.s), j + 1)
           [] tk.t = "word" /\ tk.s = "null" -> ParseOk(PyNone, j + 1)
           [] tk.t = "word" /\ tk.s = "true" -> ParseOk(PyBool(TRUE), j + 1)
           [] tk.t = "word" /\ tk.s = "false" -> ParseOk(PyBool(FALSE), j + 1)
           [] IsPunct(text, j, "[") ->
                LET k == SkipWs(text, j + 1) IN
                IF IsPunct(text, k, "]") THEN ParseOk(PyList(<<>>), k + 1)
                ELSE ParseElems(text, j + 1, <<>>)
           [] IsPunct(text, j, "{") ->
                LET k == SkipWs(text, j + 1) IN
                IF IsPunct(text, k, "}") THEN ParseOk(PyDict(<<>>, <<>>), k + 1)
                ELSE ParseMembers(text, j + 1, PyDict(<<>>, <<>>))
           [] OTHER -> ParseFail

\* The elements of a list after "[" or ",", up to and including "]".
ParseElems(text, i, acc) ==
    LET r == ParseValue(text, i) IN
    IF ~r.ok THEN ParseFail
    ELSE LET k == SkipWs(text, r.next) IN
         IF IsPunct(text, k, ",") THEN ParseElems(text, k + 1, Append(acc, r.val))
         ELSE IF IsPunct(text, k, "]") THEN ParseOk(PyList(Append(acc, r.val)), k + 1)
         ELSE ParseFail

\* The members of an object after "{" or ",", up to and including "}".
ParseMembers(text, i, acc) ==
    LET j == SkipWs(text, i) IN
    IF ~(j <= Len(text) /\ text[j].t = "str") THEN ParseFail
    ELSE LET c == SkipWs(text, j + 1) IN
         IF ~IsPunct(text, c, ":") THEN ParseFail
         ELSE LET r == ParseValue(text, c + 1) IN
              IF ~r.ok THEN ParseFail
              ELSE LET d == DictSet(acc, text[j].s, r.val)
                       k == SkipWs(text, r.next)
                   IN  IF IsPunct(text, k, ",") THEN ParseMembers(text, k + 1, d)
                       ELSE IF IsPunct(text, k, "}") THEN ParseOk(d, k + 1)
                       ELSE ParseFail

json_loads(text) ==
    LET r == ParseValue(text, 1) IN
    IF r.ok /\ SkipWs(text, r.next) > Len(text) THEN r.val ELSE JSONDecodeError

(***************************************************************************)
(* json.dumps of a dict of strings and integers, with Python's default     *)
(* separators ", " and ": ".                                               *)
(***************************************************************************)
DumpScalar(v) == IF v.k = "int" THEN N(v.n) ELSE S(v.s)

RECURSIVE DumpMembers(_, _)
DumpMembers(d, i) ==
    IF i > Len(d.keys) THEN <<>>
    ELSE (IF i > 1 THEN <<P(","), WS>> ELSE <<>>)
         \o <<S(d.keys[i]), P(":"), WS, DumpScalar(d.items[i])>>
         \o DumpMembers(d, i + 1)

json_dumps(d) == <<P("{")>> \o DumpMembers(d, 1) \o <<P("}")>>

(***************************************************************************)
(* Messages on the data channel: text or bytes.                            *)
(***************************************************************************)
TextMsg(text) == [bin |-> FALSE, text |-> text, data |-> <<>>]
BinMsg(data) == [bin |-> TRUE, text |-> <<>>, data |-> data]
NoMsg == TextMsg(<<>>)

VARIABLES
    role,             \* args.role: "offer" or "answer"
    file_to_send,     \* args.file: [given, path]; not given is Python's None
    fs,               \* the regular files of the file system: path -> bytes
    pc,               \* where main() is
    calls,            \* the calls made on the RTCPeerConnection, in order
    remote_desc,      \* pc.remoteDescription: "None", or the committed type
    channel,          \* the data channel: "none", "connecting", "open", "closed"
    tasks,            \* the tasks asyncio.ensure_future created, in order
    sent,             \* the messages given to channel.send, in order
    pasted,           \* the texts the handshake's input() returned, in order
    typed,            \* the lines chat_prompt's input() returned, in order
    incoming_files,   \* the dict: file name -> entry
    handles,          \* every file object open() returned, in order, with
                      \* what was written to it and whether close() was called
    out,              \* what print() has shown the operator, in order
    hist              \* the messages the channel has delivered, in order

session == <<role, file_to_send, fs, pc, calls, remote_desc, channel, tasks,
             sent, pasted, typed>>
receiver == <<incoming_files, handles>>
vars == <<session, receiver, out, hist>>

\* One line of print() output.
Printed(ev, name, size, msg) ==
    [ev |-> ev, name |-> name, size |-> size, msg |-> msg]
Shown(ev) == Printed(ev, "", 0, NoMsg)

(***************************************************************************)
(* The receive procedure.  Each operator takes the lines its caller has    *)
(* printed so far in this call, and sets incoming_files', handles', out'.  *)
(***************************************************************************)
\* open(f"received_{file_name}", "wb"): a new file object on an empty file.
OpenWb(file_name) ==
    [path |-> <<"received_", file_name>>, content |-> <<>>, closed |-> FALSE]

\* open_file_receiver keeping the count of an entry it finds under the name.
open_file_receiver_keep_count(file_name, file_size, shown) ==
    /\ handles' = Append(handles, OpenWb(file_name))
    /\ incoming_files' =
         [k \in DOMAIN incoming_files \cup {file_name} |->
            IF k = file_name
            THEN [file_name |-> file_name,
                  file_size |-> file_size,
                  received_bytes |-> IF file_name \in DOMAIN incoming_files
                                    THEN incoming_files[file_name].received_bytes
                                    ELSE 0,
                  handle |-> Len(handles) + 1]
            ELSE incoming_files[k]]
    /\ out' = out \o shown \o <<Printed("saved_as", file_name, 0, NoMsg)>>

open_file_receiver(file_name, file_size, shown) ==
    /\ handles' = Append(handles, OpenWb(file_name))
    /\ incoming_files' =
         [k \in DOMAIN incoming_files \cup {file_name} |->
            IF k = file_name
            THEN [file_name |-> file_name,
                  file_size |-> file_size,
                  received_bytes |-> 0,
                  handle |-> Len(handles) + 1]
            ELSE incoming_files[k]]
    /\ out' = out \o shown \o <<Printed("saved_as", file_name, 0, NoMsg)>>

\* handle_binary_message with "len(incoming_files) >= 1": a chunk goes to some
\* entry when several are in progress.
handle_binary_message_any(message, shown) ==
    IF Cardinality(DOMAIN incoming_files) >= 1
    THEN LET file_info == incoming_files[CHOOSE k \in DOMAIN incoming_files : TRUE]
             h == file_info.handle
             received == file_info.received_bytes + Len(message.data)
         IN  IF received >= file_info.file_size
             THEN /\ handles' = [handles EXCEPT
                                   ![h].content = @ \o message.data,
                                   ![h].closed = TRUE]
                  /\ out' = out \o shown
                              \o <<Printed("received_ok", file_info.file_name, 0, NoMsg)>>
                  /\ incoming_files' =
                       [k \in DOMAIN incoming_files \ {file_info.file_name} |->
                          incoming_files[k]]
             ELSE /\ handles' = [handles EXCEPT ![h].content = @ \o message.data]
                  /\ out' = out \o shown
                  /\ incoming_files' =
                       [incoming_files EXCEPT
                          ![file_info.file_name].received_bytes = received]
    ELSE /\ out' = out \o shown \o <<Shown("Warning")>>
         /\ UNCHANGED receiver

\* handle_binary_message with ">" for ">=": a transfer that receives exactly
\* the announced size stays open.
handle_binary_message_gt(message, shown) ==
    IF Cardinality(DOMAIN incoming_files) = 1
    THEN LET file_info == incoming_files[CHOOSE k \in DOMAIN incoming_files : TRUE]
             h == file_info.handle
             received == file_info.received_bytes + Len(message.data)
         IN  IF received > file_info.file_size
             THEN /\ handles' = [handles EXCEPT
                                   ![h].content = @ \o message.data,
                                   ![h].closed = TRUE]
                  /\ out' = out \o shown
                              \o <<Printed("received_ok", file_info.file_name, 0, NoMsg)>>
                  /\ incoming_files' =
                       [k \in DOMAIN incoming_files \ {file_info.file_name} |->
                          incoming_files[k]]
             ELSE /\ handles' = [handles EXCEPT ![h].content = @ \o message.data]
                  /\ out' = out \o shown
                  /\ incoming_files' =
                       [incoming_files EXCEPT
                          ![file_info.file_name].received_bytes = received]
    ELSE /\ out' = out \o shown \o <<Shown("Warning")>>
         /\ UNCHANGED receiver

handle_binary_message(message, shown) ==
    IF Cardinality(DOMAIN incoming_files) = 1
    THEN LET file_info == incoming_files[CHOOSE k \in DOMAIN incoming_files : TRUE]
             h == file_info.handle
             received == file_info.received_bytes + Len(message.data)
         IN  IF received >= file_info.file_size
             THEN /\ handles' = [handles EXCEPT
                                   ![h].content = @ \o message.data,
                                   ![h].closed = TRUE]
                  /\ out' = out \o shown
                              \o <<Printed("received_ok", file_info.file_name, 0, NoMsg)>>
                  /\ incoming_files' =
                       [k \in DOMAIN incoming_files \ {file_info.file_name} |->
                          incoming_files[k]]
             ELSE /\ handles' = [handles EXCEPT ![h].content = @ \o message.data]
                  /\ out' = out \o shown
                  /\ incoming_files' =
                       [incoming_files EXCEPT
                          ![file_info.file_name].received_bytes = received]
    ELSE /\ out' = out \o shown \o <<Shown("Warning")>>
         /\ UNCHANGED receiver

\* print("Peer:", x), for the raw text or for the parsed value.
PrintPeer(shown, how, message) ==
    /\ out' = out \o shown \o <<Printed(how, "", 0, message)>>
    /\ UNCHANGED receiver

\* The try block with the announcement told by its fields, not by its type.
TextBranch_by_fields(message, data, shown) ==
    IF data.k = "JSONDecodeError"
    THEN PrintPeer(shown, "Peer_text", message)
    ELSE IF data.k # "dict"
    THEN PrintPeer(shown, "Peer_text", message)
    ELSE IF DictHas(data, "file_name") /\ DictHas(data, "file_size")
    THEN LET file_name == DictItem(data, "file_name").s
             file_size == DictItem(data, "file_size").n
         IN  open_file_receiver(file_name, file_size,
                shown \o <<Printed("Incoming", file_name, file_size, NoMsg)>>)
    ELSE PrintPeer(shown, "Peer_data", message)

\* The try block reading the size with data.get("file_size", 0): an
\* announcement without a size opens a transfer of 0 bytes.
TextBranch_default_size(message, data, shown) ==
    IF data.k = "JSONDecodeError"
    THEN PrintPeer(shown, "Peer_text", message)
    ELSE IF data.k # "dict"
    THEN PrintPeer(shown, "Peer_text", message)
    ELSE IF DictGet(data, "type").k = "str" /\ DictGet(data, "type").s = "file_meta"
    THEN IF ~DictHas(data, "file_name")
         THEN PrintPeer(shown, "Peer_text", message)
         ELSE LET file_name == DictItem(data, "file_name").s
                  file_size == IF DictHas(data, "file_size")
                               THEN DictItem(data, "file_size").n
                               ELSE 0
              IN  open_file_receiver(file_name, file_size,
                     shown \o <<Printed("Incoming", file_name, file_size, NoMsg)>>)
    ELSE PrintPeer(shown, "Peer_data", message)

\* The try block of on_message_received, data being json.loads(message) or
\* the JSONDecodeError it raised.
TextBranch(message, data, shown) ==
    IF data.k = "JSONDecodeError"
    THEN PrintPeer(shown, "Peer_text", message)
    ELSE IF data.k # "dict"
    THEN \* data.get raises AttributeError
         PrintPeer(shown, "Peer_text", message)
    ELSE IF DictGet(data, "type").k = "str" /\ DictGet(data, "type").s = "file_meta"
    THEN IF ~DictHas(data, "file_name") \/ ~DictHas(data, "file_size")
         THEN \* KeyError
              PrintPeer(shown, "Peer_text", message)
         ELSE LET file_name == DictItem(data, "file_name").s
                  file_size == DictItem(data, "file_size").n
              IN  open_file_receiver(file_name, file_size,
                     shown \o <<Printed("Incoming", file_name, file_size, NoMsg)>>)
    ELSE PrintPeer(shown, "Peer_data", message)

on_message_received(message) ==
    LET debug == <<Printed("DEBUG", "", 0, message)>> IN
    IF message.bin
    THEN handle_binary_message(message, debug)
    ELSE TextBranch(message, json_loads(message.text), debug)

(***************************************************************************)
(* str.strip and str.lower, on lexemes.                                    *)
(***************************************************************************)
RECURSIVE RStripEnd(_, _)
RStripEnd(text, j) ==
    IF j >= 1 /\ text[j].t = "ws" THEN RStripEnd(text, j - 1) ELSE j

strip(text) == SubSeq(text, SkipWs(text, 1), RStripEnd(text, Len(text)))

LowerWord(s) ==
    CASE s = "BYE" -> "bye"
      [] s = "Bye" -> "bye"
      [] s = "Hi" -> "hi"
      [] OTHER -> s

lower(text) == [i \in 1..Len(text) |-> [text[i] EXCEPT !.s = LowerWord(@)]]

(***************************************************************************)
(* The send side.                                                          *)
(***************************************************************************)
chunk_size == 16000

\* A path is the sequence of its components; os.path.basename is the last.
basename(file_path) == file_path[Len(file_path)]
isfile(file_path) == file_path \in DOMAIN fs
getsize(file_path) == Len(fs[file_path])

\* json.dumps({"file_name": ..., "file_size": ..., "type": "file_meta"})
meta_info(file_name, file_size) ==
    json_dumps(PyDict(<<"file_name", "file_size", "type">>,
                      <<PyStr(file_name), PyInt(file_size), PyStr("file_meta")>>))

\* A read that gives nothing when fewer than chunk_size bytes are left.
read_whole_chunks(content, pos) ==
    IF pos + chunk_size <= Len(content)
    THEN SubSeq(content, pos + 1, pos + chunk_size)
    ELSE <<>>

\* f.read(chunk_size) with the file position at pos.
read(content, pos) ==
    SubSeq(content, pos + 1,
           IF pos + chunk_size < Len(content) THEN pos + chunk_size ELSE Len(content))

\* The loop with the last chunk padded with zeros to chunk_size.
RECURSIVE SendChunksPadded(_, _)
SendChunksPadded(content, pos) ==
    LET last == IF pos + chunk_size < Len(content) THEN pos + chunk_size ELSE Len(content)
        chunk == SubSeq(content, pos + 1, last)
    IN  IF chunk = <<>> THEN <<>>
        ELSE <<BinMsg(chunk \o [i \in 1..(chunk_size - Len(chunk)) |-> 0])>>
             \o SendChunksPadded(content, pos + Len(chunk))

\* The while loop of send_file: the chunks sent from position pos on.
RECURSIVE SendChunks(_, _)
SendChunks(content, pos) ==
    LET chunk == read(content, pos) IN
    IF chunk = <<>> THEN <<>>
    ELSE <<BinMsg(chunk)>> \o SendChunks(content, pos + Len(chunk))

\* send_file has no await: it runs to its end in one step of the event loop.
\* channel.send raises InvalidStateError on a channel that is not open, which
\* ends the task at its first send.
send_file(i, file_path) ==
    LET file_name == basename(file_path)
        file_size == getsize(file_path)
        sending == Printed("Sending_file", file_name, file_size, NoMsg)
    IN  IF channel = "open"
        THEN /\ sent' = sent \o <<TextMsg(meta_info(file_name, file_size))>>
                             \o SendChunks(fs[file_path], 0)
             /\ out' = out \o <<sending,
                                Printed("sent_successfully", file_name, 0, NoMsg)>>
             /\ tasks' = [tasks EXCEPT ![i].st = "done"]
        ELSE /\ out' = Append(out, sending)
             /\ tasks' = [tasks EXCEPT ![i].st = "failed"]
             /\ UNCHANGED sent

Task(fn) == [fn |-> fn, st |-> "pending"]

TestMessage ==
    <<W("Test"), WS, W("message"), WS, W("from"), WS, W("this"), WS, W("peer.")>>

\* "if file_to_send" is false for None and for the empty string.
Truthy(f) == f.given /\ f.path # <<>>

\* on_channel_open without its else: the chat prompt starts in either case.
on_channel_open_both(f) ==
    /\ out' = Append(out, Shown("channel_open"))
    /\ sent' = Append(sent, TextMsg(TestMessage))
    /\ tasks' = tasks \o (IF Truthy(f) /\ isfile(f.path)
                          THEN <<Task("send_file")>>
                          ELSE <<>>)
                      \o <<Task("chat_prompt")>>

on_channel_open(f) ==
    /\ out' = Append(out, Shown("channel_open"))
    /\ sent' = Append(sent, TextMsg(TestMessage))
    /\ tasks' = Append(tasks, IF Truthy(f) /\ isfile(f.path)
                              THEN Task("send_file")
                              ELSE Task("chat_prompt"))

\* chat_prompt sending message.lower(), the value it compares with "bye".
chat_prompt_lowered(i, line) ==
    LET message == strip(line) IN
    IF message = <<>>
    THEN UNCHANGED <<sent, out, tasks>>
    ELSE IF lower(message) = <<W("bye")>>
    THEN /\ out' = Append(out, Shown("Ending_chat"))
         /\ IF channel = "open"
            THEN /\ sent' = Append(sent,
                               TextMsg(<<W("Peer"), WS, W("has"), WS, W("left"),
                                         WS, W("the"), WS, W("chat.")>>))
                 /\ tasks' = [tasks EXCEPT ![i].st = "done"]
            ELSE /\ tasks' = [tasks EXCEPT ![i].st = "failed"]
                 /\ UNCHANGED sent
    ELSE IF channel = "open"
    THEN /\ sent' = Append(sent, TextMsg(lower(message)))
         /\ UNCHANGED <<out, tasks>>
    ELSE /\ tasks' = [tasks EXCEPT ![i].st = "failed"]
         /\ UNCHANGED <<sent, out>>

\* chat_prompt without the break after the sentinel: the loop goes on.
chat_prompt_no_break(i, line) ==
    LET message == strip(line) IN
    IF message = <<>>
    THEN UNCHANGED <<sent, out, tasks>>
    ELSE IF lower(message) = <<W("bye")>>
    THEN /\ out' = Append(out, Shown("Ending_chat"))
         /\ IF channel = "open"
            THEN /\ sent' = Append(sent,
                               TextMsg(<<W("Peer"), WS, W("has"), WS, W("left"),
                                         WS, W("the"), WS, W("chat.")>>))
                 /\ UNCHANGED tasks
            ELSE /\ tasks' = [tasks EXCEPT ![i].st = "failed"]
                 /\ UNCHANGED sent
    ELSE IF channel = "open"
    THEN /\ sent' = Append(sent, TextMsg(message))
         /\ UNCHANGED <<out, tasks>>
    ELSE /\ tasks' = [tasks EXCEPT ![i].st = "failed"]
         /\ UNCHANGED <<sent, out>>

\* One pass of chat_prompt's loop, input() having returned line.
chat_prompt(i, line) ==
    LET message == strip(line) IN
    IF message = <<>>
    THEN UNCHANGED <<sent, out, tasks>>
    ELSE IF lower(message) = <<W("bye")>>
    THEN /\ out' = Append(out, Shown("Ending_chat"))
         /\ IF channel = "open"
            THEN /\ sent' = Append(sent,
                               TextMsg(<<W("Peer"), WS, W("has"), WS, W("left"),
                                         WS, W("the"), WS, W("chat.")>>))
                 /\ tasks' = [tasks EXCEPT ![i].st = "done"]
            ELSE /\ tasks' = [tasks EXCEPT ![i].st = "failed"]
                 /\ UNCHANGED sent
    ELSE IF channel = "open"
    THEN /\ sent' = Append(sent, TextMsg(message))
         /\ UNCHANGED <<out, tasks>>
    ELSE /\ tasks' = [tasks EXCEPT ![i].st = "failed"]
         /\ UNCHANGED <<sent, out>>

(***************************************************************************)
(* The handshake.                                                          *)
(***************************************************************************)
Call(op, arg, ok) == [op |-> op, arg |-> arg, ok |-> ok]

DescriptionTypes == {"offer", "pranswer", "answer", "rollback"}

\* Lines 51-55 and 76-80: json.loads, the two subscripts and the
\* RTCSessionDescription constructor; ok is FALSE when one of them raises.
ParseDescription(str) ==
    LET j == json_loads(str) IN
    IF j.k = "JSONDecodeError" THEN [ok |-> FALSE, type |-> ""]
    ELSE IF j.k # "dict" THEN [ok |-> FALSE, type |-> ""]             \* TypeError
    ELSE IF ~DictHas(j, "sdp") \/ ~DictHas(j, "type")
    THEN [ok |-> FALSE, type |-> ""]                                  \* KeyError
    ELSE IF ~(DictItem(j, "type").k = "str" /\ DictItem(j, "type").s \in DescriptionTypes)
    THEN [ok |-> FALSE, type |-> ""]                                  \* ValueError
    ELSE [ok |-> TRUE, type |-> DictItem(j, "type").s]

\* hold_connection without its loop: it prints and returns, and main() goes
\* on to its finally.
hold_connection_returns(shown) ==
    /\ out' = out \o shown \o <<Shown("Connection_established")>>
    /\ pc' = "closing"

\* hold_connection: prints, then sleeps until interrupted.
hold_connection(shown) ==
    /\ out' = out \o shown \o <<Shown("Connection_established")>>
    /\ pc' = "hold"

\* run_offer up to its input().
run_offer_begin ==
    /\ calls' = calls \o <<Call("createDataChannel", "", TRUE),
                           Call("createOffer", "", TRUE),
                           Call("setLocalDescription", "offer", TRUE)>>
    /\ channel' = "connecting"
    /\ out' = Append(out, Shown("OFFER"))
    /\ pc' = "paste"

\* run_offer without the return of its except block.
run_offer_no_return(answer_str, accepted) ==
    LET answer == ParseDescription(strip(answer_str)) IN
    IF answer.ok /\ accepted
    THEN /\ calls' = Append(calls, Call("setRemoteDescription", answer.type, TRUE))
         /\ remote_desc' = answer.type
         /\ hold_connection(<<>>)
    ELSE /\ calls' = IF answer.ok
                     THEN Append(calls, Call("setRemoteDescription", answer.type, FALSE))
                     ELSE calls
         /\ hold_connection(<<Shown("Failed_to_parse")>>)
         /\ UNCHANGED remote_desc

\* run_answer without the return of its except block.
run_answer_no_return(offer_str, accepted) ==
    LET offer == ParseDescription(strip(offer_str))
        tried == IF offer.ok
                 THEN <<Call("setRemoteDescription", offer.type, accepted)>>
                 ELSE <<>>
    IN  /\ calls' = calls \o tried \o <<Call("createAnswer", "", TRUE),
                                        Call("setLocalDescription", "answer", TRUE)>>
        /\ remote_desc' = IF offer.ok /\ accepted THEN offer.type ELSE remote_desc
        /\ hold_connection((IF offer.ok /\ accepted THEN <<>>
                            ELSE <<Shown("Failed_to_parse")>>) \o <<Shown("ANSWER")>>)

\* run_offer from its input() on; accepted is whether the engine takes the
\* description or setRemoteDescription raises.
run_offer(answer_str, accepted) ==
    LET answer == ParseDescription(strip(answer_str)) IN
    IF answer.ok /\ accepted
    THEN /\ calls' = Append(calls, Call("setRemoteDescription", answer.type, TRUE))
         /\ remote_desc' = answer.type
         /\ hold_connection(<<>>)
    ELSE /\ calls' = IF answer.ok
                     THEN Append(calls, Call("setRemoteDescription", answer.type, FALSE))
                     ELSE calls
         /\ out' = Append(out, Shown("Failed_to_parse"))
         /\ pc' = "closing"
         /\ UNCHANGED remote_desc

run_answer(offer_str, accepted) ==
    LET offer == ParseDescription(strip(offer_str)) IN
    IF offer.ok /\ accepted
    THEN /\ calls' = calls \o <<Call("setRemoteDescription", offer.type, TRUE),
                                Call("createAnswer", "", TRUE),
                                Call("setLocalDescription", "answer", TRUE)>>
         /\ remote_desc' = offer.type
         /\ hold_connection(<<Shown("ANSWER")>>)
    ELSE /\ calls' = IF offer.ok
                     THEN Append(calls, Call("setRemoteDescription", offer.type, FALSE))
                     ELSE calls
         /\ out' = Append(out, Shown("Failed_to_parse"))
         /\ pc' = "closing"
         /\ UNCHANGED remote_desc

(***************************************************************************)
(* The session: main(), the events of the engine and of the operator.      *)
(***************************************************************************)
\* input() blocks the thread of the event loop: nothing else runs meanwhile.
ThreadFree == \A i \in DOMAIN tasks : tasks[i].st # "input"

\* main() calls run_offer or run_answer, which runs to its input().
Start ==
    /\ pc = "start"
    /\ IF role = "offer"
       THEN run_offer_begin
       ELSE /\ pc' = "paste"
            /\ UNCHANGED <<calls, channel, out>>
    /\ UNCHANGED <<role, file_to_send, fs, remote_desc, tasks, sent, pasted, typed,
                   receiver, hist>>

\* The operator pastes the remote description.
Paste(str, accepted) ==
    /\ pc = "paste"
    /\ pasted' = Append(pasted, str)
    /\ IF role = "offer" THEN run_offer(str, accepted) ELSE run_answer(str, accepted)
    /\ UNCHANGED <<role, file_to_send, fs, channel, tasks, sent, typed, receiver, hist>>

\* The engine announces the channel the remote peer created (on_datachannel).
\* Whether that channel is still to open, or open already and without a later
\* open event, is the engine's choice.
OnDataChannel(state) ==
    /\ role = "answer"
    /\ pc = "hold"
    /\ channel = "none"
    /\ channel' = state
    /\ out' = Append(out, Shown("DataChannel_created"))
    /\ UNCHANGED <<role, file_to_send, fs, pc, calls, remote_desc, tasks, sent,
                   pasted, typed, receiver, hist>>

\* The channel's open event.
ChannelOpen ==
    /\ pc = "hold"
    /\ channel = "connecting"
    /\ remote_desc # "None"
    /\ channel' = "open"
    /\ on_channel_open(file_to_send)
    /\ UNCHANGED <<role, file_to_send, fs, pc, calls, remote_desc, pasted, typed,
                   receiver, hist>>

\* The event loop runs a task ensure_future created.
TaskRun(i) ==
    /\ pc \in {"hold", "closing"}
    /\ ThreadFree
    /\ tasks[i].st = "pending"
    /\ IF tasks[i].fn = "send_file"
       THEN send_file(i, file_to_send.path)
       ELSE /\ tasks' = [tasks EXCEPT ![i].st = "input"]
            /\ UNCHANGED <<sent, out>>
    /\ UNCHANGED <<role, file_to_send, fs, pc, calls, remote_desc, channel, pasted,
                   typed, receiver, hist>>

MaxLines == 2

\* The operator types a line at chat_prompt's input().
ChatInput(i, line) ==
    /\ tasks[i].st = "input"
    /\ Len(typed) < MaxLines
    /\ typed' = Append(typed, line)
    /\ chat_prompt(i, line)
    /\ UNCHANGED <<role, file_to_send, fs, pc, calls, remote_desc, channel, pasted,
                   receiver, hist>>

\* The channel delivers a message.
Deliver(m) ==
    /\ pc = "hold"
    /\ channel = "open"
    /\ ThreadFree
    /\ hist' = Append(hist, m)
    /\ on_message_received(m)
    /\ UNCHANGED session

\* Ctrl+C: KeyboardInterrupt ends run_until_complete, and the task that was
\* in input() with it.
Interrupt ==
    /\ pc \in {"paste", "hold"}
    /\ pc' = "closing"
    /\ tasks' = [i \in DOMAIN tasks |->
                   IF tasks[i].st = "input"
                   THEN [tasks[i] EXCEPT !.st = "interrupted"]
                   ELSE tasks[i]]
    /\ UNCHANGED <<role, file_to_send, fs, calls, remote_desc, channel, sent, pasted,
                   typed, receiver, out, hist>>

\* main()'s finally: loop.run_until_complete(pc.close()).
PcClose ==
    /\ pc = "closing"
    /\ ThreadFree
    /\ calls' = Append(calls, Call("close", "", TRUE))
    /\ channel' = IF channel = "none" THEN "none" ELSE "closed"
    /\ pc' = "exited"
    /\ UNCHANGED <<role, file_to_send, fs, remote_desc, tasks, sent, pasted, typed,
                   receiver, out, hist>>

\* The engine loses the connection or the remote peer closes the channel.
\* No handler is registered for either.
TransportFailure ==
    /\ pc = "hold"
    /\ channel \in {"connecting", "open"}
    /\ channel' = "closed"
    /\ UNCHANGED <<role, file_to_send, fs, pc, calls, remote_desc, tasks, sent,
                   pasted, typed, receiver, out, hist>>

(***************************************************************************)
(* The inputs.                                                             *)
(***************************************************************************)
NotGiven == [given |-> FALSE, path |-> <<>>]
Given(path) == [given |-> TRUE, path |-> path]
TheFile == <<"dir", "f.bin">>

FileArgs == { NotGiven, Given(<<>>), Given(TheFile), Given(<<"missing.bin">>) }

Envelope(sdp, type) ==
    <<P("{"), S("sdp"), P(":"), WS, S(sdp), P(","), WS,
      S("type"), P(":"), WS, S(type), P("}")>>

WellFormedPastes ==
    { <<WS>> \o Envelope("v=0", "offer") \o <<WS>>,
      Envelope("v=0", "answer") }

MalformedPastes ==
    { <<>>,
      <<W("hello")>>,
      <<P("{"), S("sdp"), P(":"), S("v=0"), P("}")>>,
      <<P("{"), S("type"), P(":"), S("answer"), P("}")>>,
      <<P("{"), S("sdp"), P(":"), S("v=0"), P(","), S("type"), P(":"), S("offer")>>,
      <<P("["), S("sdp"), P(","), S("type"), P("]")>>,
      <<S("offer")>> }

\* Both fields present, and a type RTCSessionDescription refuses.
InvalidPastes == { Envelope("v=0", "bogus") }

Pastes == WellFormedPastes \cup MalformedPastes \cup InvalidPastes

ChatLines ==
    { <<W("hello")>>, <<WS, W("Hi"), WS>>, <<WS>>, <<W("bye")>>, <<WS, W("Bye"), WS>> }

Announcements ==
    { TextMsg(meta_info("a", 0)), TextMsg(meta_info("a", 2)),
      TextMsg(meta_info("a", 3)), TextMsg(meta_info("b", 2)) }

\* Texts that are valid JSON and carry no type = "file_meta".
JsonNoMarker ==
    { TextMsg(<<N(42)>>),
      TextMsg(<<S("file_meta")>>),
      TextMsg(<<P("["), S("file_meta"), P(","), N(1), P("]")>>),
      TextMsg(<<P("{"), P("}")>>),
      TextMsg(<<P("{"), S("type"), P(":"), S("chat"), P("}")>>),
      TextMsg(<<P("{"), S("file_name"), P(":"), S("a"), P(","),
                S("file_size"), P(":"), N(2), P("}")>>) }

\* Valid JSON with the marker and without file_name or file_size.
MarkerNoFields ==
    { TextMsg(<<P("{"), S("type"), P(":"), S("file_meta"), P("}")>>),
      TextMsg(<<P("{"), S("type"), P(":"), S("file_meta"), P(","),
                S("file_name"), P(":"), S("a"), P("}")>>),
      TextMsg(<<P("{"), S("type"), P(":"), S("file_meta"), P(","),
                S("file_size"), P(":"), N(2), P("}")>>) }

\* Texts that are not JSON.
NotJson ==
    { TextMsg(<<W("hello")>>),
      TextMsg(<<P("{"), S("type"), P(":"), S("file_meta")>>) }

OtherTexts == JsonNoMarker \cup MarkerNoFields \cup NotJson

Chunks == { BinMsg(<<>>), BinMsg(<<7>>), BinMsg(<<8, 9>>) }

InboundMsgs == Announcements \cup OtherTexts \cup Chunks

SessionInbound == { TextMsg(<<W("hello")>>), TextMsg(meta_info("a", 2)), BinMsg(<<8, 9>>) }

(***************************************************************************)
(* Spec: a whole session, from main() to the end of the process.           *)
(***************************************************************************)
MaxInbound == 2

Init ==
    /\ role \in {"offer", "answer"}
    /\ file_to_send \in FileArgs
    /\ fs = [p \in {TheFile} |-> <<1, 2, 3>>]
    /\ pc = "start"
    /\ calls = <<>>
    /\ remote_desc = "None"
    /\ channel = "none"
    /\ tasks = <<>>
    /\ sent = <<>>
    /\ pasted = <<>>
    /\ typed = <<>>
    /\ incoming_files = <<>>
    /\ handles = <<>>
    /\ out = <<>>
    /\ hist = <<>>

Next ==
    \/ Start
    \/ \E str \in Pastes, accepted \in BOOLEAN : Paste(str, accepted)
    \/ \E state \in {"connecting", "open"} : OnDataChannel(state)
    \/ ChannelOpen
    \/ \E i \in DOMAIN tasks : TaskRun(i)
    \/ \E i \in DOMAIN tasks, line \in ChatLines : ChatInput(i, line)
    \/ \E m \in SessionInbound : Len(hist) < MaxInbound /\ Deliver(m)
    \/ Interrupt
    \/ PcClose
    \/ TransportFailure

Spec == Init /\ [][Next]_vars

(***************************************************************************)
(* SpecRecv: the receive procedure against any remote peer.  The session   *)
(* is an Answerer's, its handshake done and the remote peer's channel      *)
(* open; the channel then delivers any messages of InboundMsgs in any      *)
(* order, at most MaxMsgs of them, at most one of them from OtherTexts.    *)
(***************************************************************************)
MaxMsgs == 4

InitRecv ==
    /\ role = "answer"
    /\ file_to_send = NotGiven
    /\ fs = [p \in {TheFile} |-> <<1, 2, 3>>]
    /\ pc = "hold"
    /\ calls = <<Call("setRemoteDescription", "offer", TRUE),
                 Call("createAnswer", "", TRUE),
                 Call("setLocalDescription", "answer", TRUE)>>
    /\ remote_desc = "offer"
    /\ channel = "open"
    /\ tasks = <<>>
    /\ sent = <<>>
    /\ pasted = << <<WS>> \o Envelope("v=0", "offer") \o <<WS>> >>
    /\ typed = <<>>
    /\ incoming_files = <<>>
    /\ handles = <<>>
    /\ out = <<Shown("ANSWER"), Shown("Connection_established"),
               Shown("DataChannel_created")>>
    /\ hist = <<>>

NextRecv ==
    \E m \in InboundMsgs :
        /\ Len(hist) < MaxMsgs
        /\ m \in OtherTexts => \A i \in DOMAIN hist : hist[i] \notin OtherTexts
        /\ Deliver(m)

SpecRecv == InitRecv /\ [][NextRecv]_vars

(***************************************************************************)
(* SpecRT: a file sent and reconstructed.  The session is an Offerer's     *)
(* with a file to send, its handshake done; the remote peer sends every    *)
(* message back unchanged, in order, so that what send_file sends is what  *)
(* on_message_received gets.                                               *)
(***************************************************************************)
MaxChunks == 2

FileSizes ==
    {0, 1, 40000} \cup {k * chunk_size + d : k \in 1..MaxChunks, d \in {-1, 0, 1}}

\* The bytes of a file: they differ from one chunk to the next.
Content(size, step) == [i \in 1..size |-> (i * step) % 256]

RoundTripFiles == { Content(size, step) : size \in FileSizes, step \in {1, 7} }

InitRT ==
    /\ role = "offer"
    /\ file_to_send = Given(TheFile)
    /\ fs \in { [p \in {TheFile} |-> content] : content \in RoundTripFiles }
    /\ pc = "hold"
    /\ calls = <<Call("createDataChannel", "", TRUE),
                 Call("createOffer", "", TRUE),
                 Call("setLocalDescription", "offer", TRUE),
                 Call("setRemoteDescription", "answer", TRUE)>>
    /\ remote_desc = "answer"
    /\ channel = "connecting"
    /\ tasks = <<>>
    /\ sent = <<>>
    /\ pasted = <<Envelope("v=0", "answer")>>
    /\ typed = <<>>
    /\ incoming_files = <<>>
    /\ handles = <<>>
    /\ out = <<Shown("OFFER"), Shown("Connection_established")>>
    /\ hist = <<>>

\* The channel delivers the next message the remote peer sent back.
Echo ==
    /\ Len(hist) < Len(sent)
    /\ Deliver(sent[Len(hist) + 1])

NextRT ==
    \/ ChannelOpen
    \/ \E i \in DOMAIN tasks : TaskRun(i)
    \/ Echo

SpecRT == InitRT /\ [][NextRT]_vars

(***************************************************************************)
(* Properties.  What they say of the past is read from hist and out.       *)
(***************************************************************************)
\* The step delivers a message: the message, and what the step printed.
Delivered == Len(hist') = Len(hist) + 1
Msg == hist'[Len(hist')]
NewOut == SubSeq(out', Len(out) + 1, Len(out'))
NumShown(ev) == Cardinality({i \in DOMAIN out : out[i].ev = ev})

\* The bytes of the binary messages hist[from..to], joined.
RECURSIVE Joined(_, _)
Joined(from, to) ==
    IF from > to THEN <<>>
    ELSE (IF hist[from].bin THEN hist[from].data ELSE <<>>) \o Joined(from + 1, to)

AnnIdx == {i \in DOMAIN hist : hist[i] \in Announcements}
AnnName(m) == DictItem(json_loads(m.text), "file_name").s
AnnSize(m) == DictItem(json_loads(m.text), "file_size").n

\* hist holds one announcement, and only binary messages after it.
OneTransfer ==
    /\ Cardinality(AnnIdx) = 1
    /\ \A a \in AnnIdx : \A i \in (a + 1)..Len(hist) : hist[i].bin

\* What is left of the transfer announced by hist[a] and followed by chunks:
\* closed at the first chunk that brings the bytes to the announced size, with
\* that chunk in full, and open with every chunk before.
Outcome(a) ==
    LET size == AnnSize(hist[a])
        name == AnnName(hist[a])
        Reach == {k \in (a + 1)..Len(hist) : Len(Joined(a + 1, k)) >= size}
    IN  /\ Len(handles) = 1
        /\ handles[1].path = <<"received_", name>>
        /\ IF Reach = {}
           THEN /\ ~handles[1].closed
                /\ handles[1].content = Joined(a + 1, Len(hist))
                /\ DOMAIN incoming_files = {name}
                /\ incoming_files[name].received_bytes = Len(Joined(a + 1, Len(hist)))
                /\ incoming_files[name].file_size = size
                /\ NumShown("received_ok") = 0
           ELSE LET first == CHOOSE k \in Reach : \A j \in Reach : k <= j IN
                /\ handles[1].closed
                /\ handles[1].content = Joined(a + 1, first)
                /\ incoming_files = <<>>
                /\ NumShown("received_ok") = 1
                /\ NumShown("Warning") =
                     Cardinality({i \in DOMAIN hist :
                                    hist[i].bin /\ (i < a \/ i > first)})

C2_ViolationStep ==
    (Delivered /\ Msg.bin /\ Cardinality(DOMAIN incoming_files) # 1)
        => /\ NewOut = <<Printed("DEBUG", "", 0, Msg), Shown("Warning")>>
           /\ UNCHANGED receiver

C2_Recovers ==
    (OneTransfer /\ \E a \in AnnIdx : \E i \in 1..(a - 1) : hist[i].bin)
        => \A a \in AnnIdx : Outcome(a)

(* C2: a binary message handled while the table holds zero or several      *)
(* entries prints the warning and changes neither the table nor any sink;  *)
(* and after such messages an announcement with its chunks is reassembled  *)
(* and finalized as in a fresh session.                                    *)
C2_SingleInFlight == [][C2_ViolationStep]_vars /\ []C2_Recovers

C2_Witness ==
    /\ hist = <<BinMsg(<<7>>), TextMsg(meta_info("a", 2)), BinMsg(<<8, 9>>)>>
    /\ NumShown("Warning") = 1
    /\ NumShown("received_ok") = 1
    /\ handles = <<[path |-> <<"received_", "a">>, content |-> <<8, 9>>,
                    closed |-> TRUE]>>
    /\ incoming_files = <<>>

(* C3: the table never holds more than one entry.                          *)
C3_AtMostOneEntry == Cardinality(DOMAIN incoming_files) <= 1

C4_ReportStep ==
    (Delivered /\ Msg \in Announcements /\ incoming_files # <<>>)
        => \E i \in DOMAIN NewOut :
               NewOut[i].ev \notin {"DEBUG", "Incoming", "saved_as"}

(* C4: an announcement received while a transfer is active is reported:    *)
(* the step that handles it prints a line other than the trace line and    *)
(* the two lines of an accepted announcement.                              *)
C4_ConcurrentReported == [][C4_ReportStep]_vars

(* C5: one announcement followed by chunks is finalized once, at the first *)
(* chunk that brings the received bytes to the announced size and not      *)
(* before; that chunk is written in full, also when it overshoots.         *)
C5_Completion == OneTransfer => \A a \in AnnIdx : Outcome(a)

C5_Witness ==
    /\ hist = <<TextMsg(meta_info("a", 3)), BinMsg(<<8, 9>>), BinMsg(<<8, 9>>),
                BinMsg(<<7>>)>>
    /\ handles[1].closed
    /\ handles[1].content = <<8, 9, 8, 9>>
    /\ incoming_files = <<>>
    /\ NumShown("received_ok") = 1

C6_ChatStep ==
    /\ (Delivered /\ Msg \in JsonNoMarker)
          => /\ \E how \in {"Peer_text", "Peer_data"} :
                  NewOut = <<Printed("DEBUG", "", 0, Msg), Printed(how, "", 0, Msg)>>
             /\ UNCHANGED receiver
    /\ (Delivered /\ ~Msg.bin /\ ~UNCHANGED receiver)
          => Msg \in Announcements \cup MarkerNoFields

(* C6: a text that is valid JSON without type = "file_meta" is shown to    *)
(* the operator as chat and changes neither the table nor any sink; a text *)
(* that changes them carries type = "file_meta".                           *)
C6_Disambiguation == [][C6_ChatStep]_vars

C6_Witness ==
    /\ hist = <<TextMsg(meta_info("a", 2)),
                TextMsg(<<P("{"), S("file_name"), P(":"), S("a"), P(","),
                          S("file_size"), P(":"), N(2), P("}")>>)>>
    /\ out[Len(out)].ev = "Peer_data"
    /\ DOMAIN incoming_files = {"a"}
    /\ Len(handles) = 1

\* The send-mode task has run to its end, and every message came back.
SendDone == Len(tasks) = 1 /\ tasks[1].st = "done"
AllDelivered == SendDone /\ Len(hist) = Len(sent)

(* C1: what on_message_received appends to the sink is, in order, the      *)
(* bytes of the file send_file sent: a prefix of the file at any time, and *)
(* the whole file once every message is delivered.                         *)
C1_RoundTrip ==
    /\ \A h \in DOMAIN handles :
          handles[h].content = SubSeq(fs[TheFile], 1, Len(handles[h].content))
    /\ AllDelivered
          => /\ Len(handles) = 1
             /\ handles[1].path = <<"received_", "f.bin">>
             /\ handles[1].content = fs[TheFile]

C1_Witness ==
    /\ AllDelivered
    /\ Len(fs[TheFile]) = 16001
    /\ Len(hist) = 4
    /\ handles[1].content = fs[TheFile]
    /\ handles[1].closed

(* C7: the Answerer calls createAnswer and setLocalDescription only after  *)
(* a setRemoteDescription that succeeded; with no remote description       *)
(* committed it neither makes nor prints an Answer.                        *)
C7_AnswerAfterOffer ==
    /\ \A i \in DOMAIN calls :
          (\/ calls[i].op = "createAnswer"
           \/ (calls[i].op = "setLocalDescription" /\ calls[i].arg = "answer"))
             => \E j \in 1..(i - 1) :
                   calls[j].op = "setRemoteDescription" /\ calls[j].ok
    /\ (role = "answer" /\ remote_desc = "None")
          => /\ NumShown("ANSWER") = 0
             /\ \A i \in DOMAIN calls : calls[i].op # "createAnswer"

C7_Witness ==
    /\ role = "answer"
    /\ pc = "hold"
    /\ remote_desc = "offer"
    /\ \E i \in DOMAIN calls : calls[i].op = "createAnswer"
    /\ NumShown("ANSWER") = 1

(* C8: after a malformed paste, in either role, the failure is printed, no *)
(* remote description is committed or offered to the engine, input() is    *)
(* not called again, hold_connection is never entered, and the process     *)
(* goes to its end, where pc.close() has been called once, as the last     *)
(* call.                                                                   *)
C8_ParseFailure ==
    (pasted # <<>> /\ pasted[1] \in MalformedPastes)
        => /\ NumShown("Failed_to_parse") = 1
           /\ remote_desc = "None"
           /\ \A i \in DOMAIN calls : calls[i].op # "setRemoteDescription"
           /\ Len(pasted) = 1
           /\ NumShown("Connection_established") = 0
           /\ tasks = <<>>
           /\ pc \in {"closing", "exited"}
           /\ pc = "exited"
                 => /\ calls[Len(calls)].op = "close"
                    /\ Cardinality({i \in DOMAIN calls : calls[i].op = "close"}) = 1

C8_Witness ==
    /\ role = "offer"
    /\ pasted = << <<P("{"), S("sdp"), P(":"), S("v=0"), P("}")>> >>
    /\ pc = "exited"
    /\ NumShown("Failed_to_parse") = 1

\* Each open event has started one task.
OneTaskPerOpen == Len(tasks) = NumShown("channel_open")

C10_SendFile ==
    SendDone
        => LET file == fs[TheFile]
               size == Len(file)
               n == (size + 15999) \div 16000
               meta == json_loads(sent[2].text)
           IN  /\ Len(sent) = 2 + n
               /\ sent[1] = TextMsg(TestMessage)
               /\ ~sent[2].bin
               /\ meta.k = "dict"
               /\ DictGet(meta, "type") = PyStr("file_meta")
               /\ DictGet(meta, "file_name") = PyStr("f.bin")
               /\ DictGet(meta, "file_size") = PyInt(size)
               /\ \A k \in 1..n :
                     /\ sent[2 + k].bin
                     /\ Len(sent[2 + k].data) =
                          IF k < n THEN 16000 ELSE size - 16000 * (n - 1)
                     /\ sent[2 + k].data =
                          SubSeq(file, 16000 * (k - 1) + 1,
                                 16000 * (k - 1) + Len(sent[2 + k].data))

C10_Witness ==
    /\ SendDone
    /\ Len(fs[TheFile]) = 40000
    /\ Len(sent) = 5
    /\ Len(sent[3].data) = 16000
    /\ Len(sent[4].data) = 16000
    /\ Len(sent[5].data) = 8000

\* The chat loop stands at input(), the channel open and main() in its
\* keep-alive loop.
ChatWaiting ==
    /\ pc = "hold"
    /\ channel = "open"
    /\ \E i \in DOMAIN tasks : tasks[i].fn = "chat_prompt" /\ tasks[i].st = "input"

(* C11: receive handling does not wait for the send mode to finish: while  *)
(* the chat loop waits for operator input on an open channel, a message    *)
(* the channel delivers can be handled by on_message_received.             *)
C11_ReceiveWhileSending ==
    ChatWaiting => \A m \in SessionInbound : ENABLED Deliver(m)

\* The entries of the table that have received fewer bytes than announced.
Incomplete ==
    {k \in DOMAIN incoming_files :
       incoming_files[k].received_bytes < incoming_files[k].file_size}

\* The lines of the handshake, of the send modes and of the receive
\* procedure; none of them tells of a transfer left incomplete.
OtherLines ==
    {"OFFER", "ANSWER", "Failed_to_parse", "Connection_established",
     "channel_open", "DataChannel_created", "Sending_file", "sent_successfully",
     "Ending_chat", "DEBUG", "Peer_text", "Peer_data", "Incoming", "saved_as",
     "received_ok", "Warning"}

(* C12: when the process has ended with an inbound transfer still short of *)
(* its announced size, a failure has been reported to the operator, and    *)
(* the sink of that transfer still holds the bytes received.               *)
C12_IncompleteReported ==
    (pc = "exited" /\ Incomplete # {})
        => /\ \E i \in DOMAIN out : out[i].ev \notin OtherLines
           /\ \A k \in Incomplete :
                 Len(handles[incoming_files[k].handle].content)
                    = incoming_files[k].received_bytes

\* The line is the sentinel: "bye" once trimmed and in lower case.
IsBye(line) == lower(strip(line)) = <<W("bye")>>

LeftTheChat ==
    TextMsg(<<W("Peer"), WS, W("has"), WS, W("left"), WS, W("the"), WS, W("chat.")>>)

\* The step reads the sentinel: the chat loop ends, at most its notice of
\* leaving is sent, and channel, engine and main() are left as they were.
C13_ByeStep ==
    (Len(typed') = Len(typed) + 1 /\ IsBye(typed'[Len(typed')]))
        => /\ \A i \in DOMAIN tasks' : tasks'[i].st # "input"
           /\ sent' \in {sent, Append(sent, LeftTheChat)}
           /\ UNCHANGED <<channel, calls, pc>>

\* No line is read after the sentinel.
C13_ByeLast == \A i \in DOMAIN typed : IsBye(typed[i]) => i = Len(typed)

(* C13: a line that is "bye" once trimmed and in lower case ends the chat  *)
(* loop: no operator line is read or sent after it, and the step neither   *)
(* closes the channel nor ends the session.                                *)
C13_ChatSentinel == [][C13_ByeStep]_vars /\ []C13_ByeLast

\* The sentinel was typed with blanks and a capital, the channel is still
\* open and a message was handled after the loop ended.
C13_Witness ==
    /\ typed = << <<W("hello")>>, <<WS, W("Bye"), WS>> >>
    /\ channel = "open"
    /\ pc = "hold"
    /\ \E i, j \in DOMAIN out :
          i < j /\ out[i].ev = "Ending_chat" /\ out[j].ev = "DEBUG"
    /\ sent = <<TextMsg(TestMessage), TextMsg(<<W("hello")>>), LeftTheChat>>

\* The session is in chat mode: the open event started chat_prompt.
ChatSession == tasks # <<>> /\ tasks[1].fn = "chat_prompt"

NoSendFailed == \A i \in DOMAIN tasks : tasks[i].st # "failed"

\* The lines read before the sentinel.
BeforeBye == SelectSeq(typed, LAMBDA line : ~IsBye(line))

\* What the chat loop has sent of the operator's lines: what was sent after
\* the test message, less the notice of leaving.
ChatSent ==
    IF sent[Len(sent)] = LeftTheChat
    THEN SubSeq(sent, 2, Len(sent) - 1)
    ELSE SubSeq(sent, 2, Len(sent))

\* C14 as claimed: each line read before the sentinel is sent once,
\* verbatim and in the order of input.
C14_ForwardedVerbatim ==
    (ChatSession /\ NoSendFailed)
        => ChatSent = [i \in DOMAIN BeforeBye |-> TextMsg(BeforeBye[i])]

\* The trimmed lines of BeforeBye that are not empty, as messages.
Trimmed ==
    LET kept == SelectSeq(BeforeBye, LAMBDA line : strip(line) # <<>>)
    IN  [i \in DOMAIN kept |-> TextMsg(strip(kept[i]))]

(* C14 as amended: each line read before the sentinel that is not empty    *)
(* once trimmed is sent once, trimmed, in the order of input, and a line   *)
(* that is empty once trimmed sends nothing; a line read when the channel  *)
(* is no longer open is not sent and ends the loop.                        *)
C14_ForwardedTrimmed ==
    ChatSession
        => IF NoSendFailed \/ IsBye(typed[Len(typed)])
           THEN ChatSent = Trimmed
           ELSE ChatSent = SubSeq(Trimmed, 1, Len(Trimmed) - 1)

\* A padded line and a plain one were read and sent, in that order.
C14_Witness ==
    /\ ChatSession
    /\ typed = << <<WS, W("Hi"), WS>>, <<W("hello")>> >>
    /\ sent = <<TextMsg(TestMessage), TextMsg(<<W("Hi")>>), TextMsg(<<W("hello")>>)>>

NumClose == Cardinality({i \in DOMAIN calls : calls[i].op = "close"})

\* main() leaves run_offer or run_answer either by an interrupt, which
\* prints nothing and calls nothing, or by a handshake that failed.
C15_EndStep ==
    (pc # "closing" /\ pc' = "closing")
        => \/ UNCHANGED <<out, calls, pasted, remote_desc>>
           \/ /\ pc = "paste"
              /\ remote_desc' = "None"
              /\ out'[Len(out')].ev = "Failed_to_parse"

C15_CloseOnce ==
    /\ pc = "exited" => NumClose = 1 /\ calls[Len(calls)].op = "close"
    /\ pc # "exited" => NumClose = 0
    /\ remote_desc # "None" => pc \in {"hold", "closing", "exited"}

(* C15: after a successful handshake main() stays in the keep-alive loop   *)
(* until an interrupt; the driver ends only by an interrupt or a failed    *)
(* handshake, and the process exits with pc.close() called once, as the    *)
(* last call on the engine.                                                *)
C15_Lifecycle == [][C15_EndStep]_vars /\ []C15_CloseOnce

\* An Offerer's session, its handshake done and its channel open, ended by
\* an interrupt.
C15_Witness ==
    /\ pc = "exited"
    /\ role = "offer"
    /\ remote_desc = "answer"
    /\ channel = "closed"
    /\ NumShown("channel_open") = 1
    /\ NumClose = 1

(* C16: once a message has been handled, no entry of the table has         *)
(* received as many bytes as its announced size, whatever that size.       *)
C16_NoCompleteEntry ==
    \A k \in DOMAIN incoming_files :
        incoming_files[k].received_bytes < incoming_files[k].file_size

(***************************************************************************)
(* SpecLive: Spec with the steps the program takes by itself taken in the  *)
(* end: main() runs on to its input() and to its pc.close(), and the event *)
(* loop runs the tasks that are ready.  The operator and the engine owe    *)
(* nothing.                                                                *)
(***************************************************************************)
SpecLive ==
    /\ Spec
    /\ WF_vars(Start)
    /\ WF_vars(PcClose)
    /\ WF_vars(\E i \in DOMAIN tasks : TaskRun(i))

(* C17: when the engine reports that the connection is lost or the channel *)
(* closed, the operator is told and the session goes to its end, the       *)
(* engine closed, without an interrupt.                                    *)
C17_FailureHandled ==
    (pc = "hold" /\ channel = "closed")
        ~> (pc = "exited" /\ \E i \in DOMAIN out : out[i].ev \notin OtherLines)

\* A step from a table of two or more entries: no entry leaves the table,
\* bytes are discarded with the warning, and no sink is closed.
C18_Step ==
    Cardinality(DOMAIN incoming_files) >= 2
        => /\ DOMAIN incoming_files \subseteq DOMAIN incoming_files'
           /\ (Delivered /\ Msg.bin)
                 => /\ UNCHANGED receiver
                    /\ NewOut = <<Printed("DEBUG", "", 0, Msg), Shown("Warning")>>
           /\ \A i \in DOMAIN NewOut : NewOut[i].ev # "received_ok"
           /\ \A h \in DOMAIN handles' :
                 handles'[h].closed => (h \in DOMAIN handles /\ handles[h].closed)

C19_ReplaceStep ==
    (Delivered /\ Msg \in Announcements /\ AnnName(Msg) \in DOMAIN incoming_files)
        => LET name == AnnName(Msg)
               old == incoming_files[name].handle
           IN  /\ DOMAIN incoming_files' = DOMAIN incoming_files
               /\ \A k \in DOMAIN incoming_files \ {name} :
                     incoming_files'[k] = incoming_files[k]
               /\ incoming_files'[name] =
                     [file_name |-> name, file_size |-> AnnSize(Msg),
                      received_bytes |-> 0, handle |-> Len(handles) + 1]
               /\ handles' = Append(handles, OpenWb(name))
               /\ ~handles'[old].closed

\* A sink that no entry writes to any more and that is open stays open.
C19_LeftOpenStep ==
    \A h \in DOMAIN handles :
        (/\ ~handles[h].closed
         /\ \A k \in DOMAIN incoming_files : incoming_files[k].handle # h)
            => ~handles'[h].closed

C20_Step ==
    (Delivered /\ Msg \in MarkerNoFields)
        => /\ NewOut = <<Printed("DEBUG", "", 0, Msg), Printed("Peer_text", "", 0, Msg)>>
           /\ UNCHANGED receiver
           /\ UNCHANGED session

(* C20: a text whose JSON has type = "file_meta" and lacks file_name or    *)
(* file_size is shown to the operator as the peer's text; the handler      *)
(* returns to the session, and the table and every sink are as before.     *)
C20_MarkerWithoutFields == [][C20_Step]_vars

\* During a transfer of a, a marked text that names a and gives no size.
C20_Witness ==
    /\ hist = <<TextMsg(meta_info("a", 2)),
                TextMsg(<<P("{"), S("type"), P(":"), S("file_meta"), P(","),
                          S("file_name"), P(":"), S("a"), P("}")>>)>>
    /\ out[Len(out)].ev = "Peer_text"
    /\ incoming_files = [k \in {"a"} |->
                           [file_name |-> "a", file_size |-> 2,
                            received_bytes |-> 0, handle |-> 1]]
    /\ Len(handles) = 1

====
